---------------------------- MODULE Spec2Model ----------------------------
(***************************************************************************)
(* A model of synthetic_data/metrics/plots.py: the membership-inference    *)
(* scorer AUCPlot (label, concatenate, shuffle, nearest-neighbour          *)
(* distance, ROC sweep, trapezoidal AUC) and the call structure of the     *)
(* projection plots of ComponentPlots.                                     *)
(*                                                                         *)
(* Library calls are modelled by what the library does at the call site:   *)
(*   pandas    read_csv, concat (outer join on columns), column assignment *)
(*             and drop;                                                   *)
(*   sklearn   utils.shuffle, neighbors.NearestNeighbors (input            *)
(*             validation and 1-nearest-neighbour Euclidean distance),     *)
(*             metrics.roc_curve and metrics.auc as of scikit-learn        *)
(*             0.20-0.22, the releases that still ship                     *)
(*             sklearn.externals.joblib (imported on line 14) and always   *)
(*             prepend the (0,0) point.                                    *)
(*                                                                         *)
(* The file as published does not compile (line 106 lacks its colon and    *)
(* the indentation mixes tabs and spaces); the model follows its           *)
(* statements in the order written.                                        *)
(*                                                                         *)
(* Numbers.  Feature values are small naturals.  A Euclidean distance is   *)
(* kept in fixed point, in hundredths: floor(100 * sqrt(sum of squares)).  *)
(* A rate (an element of fpr or tpr) and the AUC are exact fractions       *)
(* [num, den]; den = 0 is numpy's NaN (0/0).  Floating-point rounding is   *)
(* not modelled.                                                           *)
(***************************************************************************)
EXTENDS Integers, Sequences, FiniteSets, TLC

VARIABLES
    train_file,   \* contents of the CSV file passed as train_file
    test_file,    \* contents of the CSV file passed as test_file
    synth_file,   \* contents of the CSV file passed as synth_file
    rng,          \* the process-wide numpy random state (np.random)
    plot,         \* the outcome of the last AUCPlot(...) construction
    proj          \* the trace of the last ComponentPlots call

vars == <<train_file, test_file, synth_file, rng, plot, proj>>

---------------------------------------------------------------------------
(* Bounds of the model *)

\* most rows of train and test together
MaxRef == 3

\* most rows of the synthetic table
MaxSynth == 2

\* most synthetic files handed to combined_pca / combined_tsne
MaxSynthFiles == 2

\* the points the rows of the input tables are drawn from: pairwise
\* distances 2, sqrt(5) and sqrt(5)
Points == {<<0, 0>>, <<2, 0>>, <<1, 2>>}

\* the column sets (headers) a CSV file of the model can have
Schemas == {<<"a">>, <<"a", "b">>, <<"a", "c">>}

---------------------------------------------------------------------------
(* Tables: a DataFrame is [cols, rows]; a row maps column names to values. *)
(* A column of cols that is missing from a row's domain is a NaN cell (the *)
(* fill value of an outer concat).                                         *)

Range(s) == {s[i] : i \in DOMAIN s}

SeqSum(s) ==
    LET RECURSIVE Go(_)
        Go(i) == IF i = 0 THEN 0 ELSE s[i] + Go(i - 1)
    IN Go(Len(s))

SetMin(S) == CHOOSE m \in S : \A x \in S : m <= x

SetMax(S) == CHOOSE m \in S : \A x \in S : m >= x

Reverse(s) == [i \in 1..Len(s) |-> s[Len(s) + 1 - i]]

\* The rows a CSV file with header cols can hold: a point, cut to the
\* number of columns.
RowsOf(cols) ==
    {[c \in Range(cols) |-> pt[CHOOSE j \in 1..Len(cols) : cols[j] = c]] :
        pt \in Points}

\* Position of a row in the enumeration of RowsOf(cols), used only to list
\* the input tables without repetition.
RowKey(cols, row) ==
    LET RECURSIVE Go(_)
        Go(j) == IF j = 0 THEN 0 ELSE row[cols[j]] + 10 * Go(j - 1)
    IN Go(Len(cols))

SortedRows(cols, S) ==
    LET RECURSIVE Go(_)
        Go(T) == IF T = {} THEN <<>>
                 ELSE LET r == CHOOSE x \in T :
                                 \A y \in T : RowKey(cols, x) <= RowKey(cols, y)
                      IN <<r>> \o Go(T \ {r})
    IN Go(S)

\* The input tables of the model: header cols, at most n rows, pairwise
\* different and listed in increasing order (the shuffle reorders them).
Tables(cols, n) ==
    {[cols |-> cols, rows |-> SortedRows(cols, S)] :
        S \in {T \in SUBSET RowsOf(cols) : Cardinality(T) <= n}}

\* pd.read_csv: the file's table.
read_csv(file) == file

\* pd.concat([a, b], axis=0): the columns are the union (a's, then b's new
\* ones), the rows are a's followed by b's; a cell of a column the row's
\* table did not have is NaN.
concat(a, b) ==
    [cols |-> a.cols \o SelectSeq(b.cols, LAMBDA c : c \notin Range(a.cols)),
     rows |-> a.rows \o b.rows]

\* data['labels'] = labels.tolist(): positional assignment of a new column.
SetColumn(df, name, values) ==
    [cols |-> IF name \in Range(df.cols) THEN df.cols ELSE Append(df.cols, name),
     rows |-> [k \in 1..Len(df.rows) |->
                 [c \in (DOMAIN df.rows[k]) \cup {name} |->
                     IF c = name THEN values[k] ELSE df.rows[k][c]]]]

\* data.drop(name, axis=1)
DropColumn(df, name) ==
    [cols |-> SelectSeq(df.cols, LAMBDA c : c # name),
     rows |-> [k \in 1..Len(df.rows) |->
                 [c \in (DOMAIN df.rows[k]) \ {name} |-> df.rows[k][c]]]]

\* data[name]
Column(df, name) == [k \in 1..Len(df.rows) |-> df.rows[k][name]]

\* The permutations of 1..n, for every n a reference table can have.
PermTable ==
    [n \in 0..MaxRef |->
        {p \in [1..n -> 1..n] : \A i, j \in 1..n : p[i] = p[j] => i = j}]

Perms(n) == PermTable[n]

\* sklearn.utils.shuffle(data) with the permutation p drawn from np.random:
\* row k of the result is row p[k] of data, whole rows moved.
shuffle(df, p) ==
    [cols |-> df.cols, rows |-> [k \in 1..Len(df.rows) |-> df.rows[p[k]]]]

\* The rows shuffled, the labels returned in their order before the shuffle.
create_shuffled_data_detached(train_f, test_f, p) ==
    LET train_set   == read_csv(train_f)
        test_set    == read_csv(test_f)
        labels      == [i \in 1..Len(train_set.rows) |-> -1]
                         \o [i \in 1..Len(test_set.rows) |-> 1]
        data        == SetColumn(concat(train_set, test_set), "labels", labels)
    IN [data |-> DropColumn(shuffle(data, p), "labels"),
        labels |-> Column(data, "labels")]

\* AUCPlot.__create_shuffled_data, with the permutation the shuffle draws.
create_shuffled_data(train_f, test_f, p) ==
    LET train_set   == read_csv(train_f)
        test_set    == read_csv(test_f)
        label_train == [i \in 1..Len(train_set.rows) |-> -1]
        label_test  == [i \in 1..Len(test_set.rows) |-> 1]
        labels      == label_train \o label_test
        data        == SetColumn(concat(train_set, test_set), "labels", labels)
        shuffled    == shuffle(data, p)
    IN [data |-> DropColumn(shuffled, "labels"),
        labels |-> Column(shuffled, "labels")]

---------------------------------------------------------------------------
(* Nearest neighbours *)

HasNaN(df) ==
    \E k \in 1..Len(df.rows) : \E j \in 1..Len(df.cols) :
        df.cols[j] \notin DOMAIN df.rows[k]

\* check_array: the DataFrame as a positional array (column names dropped).
AsArray(df) ==
    [k \in 1..Len(df.rows) |-> [j \in 1..Len(df.cols) |-> df.rows[k][df.cols[j]]]]

\* floor(sqrt(n))
ISqrt(n) ==
    LET RECURSIVE Go(_, _)
        Go(lo, hi) ==
            IF lo = hi THEN lo
            ELSE LET mid == (lo + hi + 1) \div 2
                 IN IF mid * mid <= n THEN Go(mid, hi) ELSE Go(lo, mid - 1)
    IN Go(0, n)

\* The largest squared distance of two rows of the model.
MaxSquare ==
    SetMax({(x[1] - y[1]) * (x[1] - y[1]) + (x[2] - y[2]) * (x[2] - y[2]) :
              x \in Points, y \in Points})

\* sqrt in hundredths, floor(100 * sqrt(n)), tabulated.
Sqrt100 == [n \in 0..MaxSquare |-> ISqrt(10000 * n)]

\* Euclidean distance of two points of the same dimension, in hundredths.
Euclid(x, y) ==
    Sqrt100[SeqSum([j \in 1..Len(x) |-> (x[j] - y[j]) * (x[j] - y[j])])]

\* The distance to the first row of s in place of the nearest.
nearest_neighbors_first(t, s) ==
    IF Len(s.rows) = 0 \/ Len(t.rows) = 0 \/ Len(t.cols) # Len(s.cols)
    THEN [status |-> "ValueError", d |-> <<>>]
    ELSE [status |-> "ok",
          d |-> [k \in 1..Len(t.rows) |->
                   <<Euclid(AsArray(t)[k], AsArray(s)[1])>>]]

\* AUCPlot.__nearest_neighbors: NearestNeighbors(1).fit(s), kneighbors(t)[0].
\* fit and kneighbors validate their input and raise ValueError on an empty
\* array, a NaN cell or a different number of features; the result is an
\* (n, 1) array: one row per row of t, holding the distance to its nearest
\* row of s.
nearest_neighbors(t, s) ==
    IF Len(s.rows) = 0 \/ HasNaN(s)
    THEN [status |-> "ValueError", d |-> <<>>]
    ELSE IF Len(t.rows) = 0 \/ HasNaN(t) \/ Len(t.cols) # Len(s.cols)
    THEN [status |-> "ValueError", d |-> <<>>]
    ELSE LET X == AsArray(t)
             S == AsArray(s)
         IN [status |-> "ok",
             d |-> [k \in 1..Len(X) |->
                      <<SetMin({Euclid(X[k], S[i]) : i \in 1..Len(S)})>>]]

---------------------------------------------------------------------------
(* ROC curve and AUC *)

\* A rate k/n; n = 0 is NaN.
Rate(k, n) == [num |-> IF n = 0 THEN 0 ELSE k, den |-> n]

NaN == Rate(0, 0)

IsNaN(r) == r.den = 0

\* The elements of a finite set of integers in increasing order.
SortedSeq(S) ==
    LET RECURSIVE Go(_)
        Go(T) == IF T = {} THEN <<>>
                 ELSE LET m == SetMin(T) IN <<m>> \o Go(T \ {m})
    IN Go(S)

\* np.argsort(score, kind="mergesort"): the indices by increasing score,
\* equal scores in index order.
ArgSort(score) ==
    LET Before(i, j) == score[i] < score[j] \/ (score[i] = score[j] /\ i <= j)
        RECURSIVE Go(_)
        Go(T) == IF T = {} THEN <<>>
                 ELSE LET m == CHOOSE i \in T : \A j \in T : Before(i, j)
                      IN <<m>> \o Go(T \ {m})
    IN Go(DOMAIN score)

\* np.diff(a, 2) at interior position j
Diff2(a, j) == a[j + 1] - 2 * a[j] + a[j - 1]

\* Which points of the raw curve roc_curve keeps (drop_intermediate=True):
\* the first, the last, and every corner.
OptimalIdxs(fps, tps) ==
    IF Len(fps) > 2
    THEN {j \in 1..Len(fps) :
            j = 1 \/ j = Len(fps) \/ Diff2(fps, j) # 0 \/ Diff2(tps, j) # 0}
    ELSE 1..Len(fps)

\* A cut after every row, equal scores not grouped.
ThresholdIdxs_every(s) == [i \in 1..Len(s) |-> i]

\* The scores at which the sweep cuts: the last position of every run of
\* equal scores in the sorted order (np.where(np.diff(y_score))[0], size-1).
ThresholdIdxs(s) ==
    SortedSeq({i \in 1..Len(s) : i = Len(s) \/ s[i] # s[i + 1]})

\* A sweep in increasing score order (the order reversal forgotten).
SortOrder_ascending(score) == ArgSort(score)

\* No sort at all: the rows are swept in the order they arrive in.
SortOrder_unsorted(score) == [i \in 1..Len(score) |-> i]

\* np.argsort(y_score, kind="mergesort")[::-1]: by decreasing score.
SortOrder(score) == Reverse(ArgSort(score))

\* The curve left without its (0, 0) point.
Prepend0_missing(a) == a

\* np.r_[0, a]: the curve starts with no row predicted positive.
Prepend0(a) == <<0>> \o a

\* The counts at every cut of rows already in sweep order: pos[i] is 1 for
\* a positive row, s[i] its score.  tps = cumsum(pos)[idxs], fps = 1 +
\* idxs - tps (idxs counted from 0 there, from 1 here).
CurveAt(pos, s, idxs) ==
    [tps |-> [j \in 1..Len(idxs) |-> SeqSum(SubSeq(pos, 1, idxs[j]))],
     fps |-> [j \in 1..Len(idxs) |-> idxs[j] - SeqSum(SubSeq(pos, 1, idxs[j]))],
     thresholds |-> [j \in 1..Len(idxs) |-> s[idxs[j]]]]

\* The rows put in the order given.
InOrder(y_true, score, order) ==
    CurveAt([i \in 1..Len(order) |-> IF y_true[order[i]] = 1 THEN 1 ELSE 0],
            [i \in 1..Len(order) |-> score[order[i]]],
            ThresholdIdxs([i \in 1..Len(order) |-> score[order[i]]]))

\* sklearn.metrics._binary_clf_curve(y_true, y_score), pos_label = 1: sort
\* by decreasing score, cut at every distinct score, count the positives
\* (tps) and the negatives (fps) at or above each cut.
binary_clf_curve(y_true, score) == InOrder(y_true, score, SortOrder(score))

\* The points keep of the curve c.
Select(c, keep) ==
    [tps |-> [j \in 1..Len(keep) |-> c.tps[keep[j]]],
     fps |-> [j \in 1..Len(keep) |-> c.fps[keep[j]]],
     thresholds |-> [j \in 1..Len(keep) |-> c.thresholds[keep[j]]]]

\* roc_curve's drop_intermediate step.
DropIntermediate(c) == Select(c, SortedSeq(OptimalIdxs(c.fps, c.tps)))

\* fps / fps[-1]: NaN throughout when the last count is 0.
Normalise(counts) ==
    [j \in 1..Len(counts) |-> Rate(counts[j], counts[Len(counts)])]

\* column_or_1d: the (n, 1) array of distances as n scores.
Ravel(y_score) == [k \in 1..Len(y_score) |-> y_score[k][1]]

\* The (fpr, tpr, thresholds) of the curve c.
RocOf(c) ==
    [fpr |-> Normalise(Prepend0(c.fps)),
     tpr |-> Normalise(Prepend0(c.tps)),
     thresholds |-> <<c.thresholds[1] + 1>> \o c.thresholds]

\* sklearn.metrics.roc_curve(y_true, y_score): the curve of
\* _binary_clf_curve, its collinear points dropped, (0, 0) prepended,
\* normalised.
roc_curve(y_true, y_score) ==
    RocOf(DropIntermediate(binary_clf_curve(y_true, Ravel(y_score))))

\* The left rectangle rule in place of the trapezoid.
Trapezoid_left(x, y, i) == (x[i + 1].num - x[i].num) * (2 * y[i].num)

\* np.trapz, one panel: twice the area between x[i] and x[i+1], in units
\* of 1 / (x.den * y.den).
Trapezoid(x, y, i) == (x[i + 1].num - x[i].num) * (y[i + 1].num + y[i].num)

\* sklearn.metrics.auc(x, y): the trapezoidal rule over a monotonic x.
\* Comparisons with NaN are false, so a NaN curve passes the monotonicity
\* test and integrates to NaN.
auc(x, y) ==
    LET n        == Len(x)
        Lt(i)    == ~IsNaN(x[i]) /\ x[i + 1].num < x[i].num
        Le(i)    == ~IsNaN(x[i]) /\ x[i + 1].num <= x[i].num
        anyDown  == \E i \in 1..(n - 1) : Lt(i)
        allDown  == \A i \in 1..(n - 1) : Le(i)
        dir      == IF anyDown THEN -1 ELSE 1
        area     == SeqSum([i \in 1..(n - 1) |-> Trapezoid(x, y, i)])
    IN IF n < 2 \/ (anyDown /\ ~allDown)
       THEN [status |-> "ValueError", value |-> NaN]
       ELSE [status |-> "ok",
             value |-> Rate(dir * area, 2 * x[1].den * y[1].den)]

\* AUCPlot.__compute_auc
compute_auc(synth_f, data, labels) ==
    LET synth_data == read_csv(synth_f)
        nn         == nearest_neighbors(data, synth_data)
        roc        == roc_curve(labels, nn.d)
        roc_auc    == auc(roc.fpr, roc.tpr)
    IN IF nn.status # "ok"
       THEN [status |-> nn.status, syn_dists |-> <<>>,
             fpr |-> <<>>, tpr |-> <<>>, auc |-> NaN]
       ELSE IF roc_auc.status # "ok"
       THEN [status |-> roc_auc.status, syn_dists |-> nn.d,
             fpr |-> <<>>, tpr |-> <<>>, auc |-> NaN]
       ELSE [status |-> "ok", syn_dists |-> nn.d,
             fpr |-> roc.fpr, tpr |-> roc.tpr, auc |-> roc_auc.value]

---------------------------------------------------------------------------
(* The AUCPlot object *)

EmptyFrame == [cols |-> <<>>, rows |-> <<>>]

\* No AUCPlot has been constructed.
NoPlot ==
    [status |-> "none", perm |-> <<>>, data |-> EmptyFrame, labels |-> <<>>,
     syn_dists |-> <<>>, fpr |-> <<>>, tpr |-> <<>>, auc |-> NaN, name |-> ""]

\* AUCPlot.__init__(train_file, test_file, synth_file, name) when the
\* shuffle draws p.  status "ok": the object with its fpr, tpr, auc and
\* name; any other status: the exception that left __init__, with no
\* attribute assigned.  perm, data, labels and syn_dists are the locals of
\* the run, kept for the properties.
AUCPlot(train_f, test_f, synth_f, name, p) ==
    LET sh  == create_shuffled_data(train_f, test_f, p)
        res == compute_auc(synth_f, sh.data, sh.labels)
    IN [status |-> res.status, perm |-> p, data |-> sh.data,
        labels |-> sh.labels, syn_dists |-> res.syn_dists,
        fpr |-> res.fpr, tpr |-> res.tpr, auc |-> res.auc,
        name |-> IF res.status = "ok" THEN name ELSE ""]

\* np.random after one more draw.
Draw(r) == [seed |-> r.seed, used |-> TRUE]

\* np.random.seed(1234)
Seed1234 == [seed |-> "1234", used |-> FALSE]

\* The states np.random can be in when a call starts: seeded by the
\* operating system at import, or left by np.random.seed(1234) in an
\* earlier projection plot.
RngStates == [seed : {"os", "1234"}, used : BOOLEAN]

\* Constructing an AUCPlot: the shuffle draws one permutation from np.random.
AUCPlotInit ==
    \E p \in Perms(Len(train_file.rows) + Len(test_file.rows)) :
        /\ plot' = AUCPlot(train_file, test_file, synth_file, "auc", p)
        /\ rng' = Draw(rng)
        /\ UNCHANGED <<train_file, test_file, synth_file, proj>>

---------------------------------------------------------------------------
(* ComponentPlots: the projection plots.  The numeric projection is not   *)
(* modelled; a fitted estimator is known by the file it was last fitted   *)
(* on, and a projected data set (a scatter panel) by that basis and the   *)
(* file it shows.                                                          *)

\* the files a plot can be given
Paths == {"train", "test", "synth"}

\* the six axes of the 2 x 3 figure
NAxes == 6

\* PCA(2) / TSNE(n_components=2): an estimator not fitted yet.
Estimator(kind) == [kind |-> kind, fitted_on |-> "none"]

\* est.fit_transform(X): est is fitted on X (again, if it was fitted
\* before) and X is projected on the new basis.
fit_transform(est, path) ==
    [est |-> [est EXCEPT !.fitted_on = path],
     out |-> [basis |-> path, data |-> path],
     event |-> [op |-> "fit_transform", on |-> path]]

\* est.transform(X): X projected on the basis est already has.
transform(est, path) ==
    [est |-> est,
     out |-> [basis |-> est.fitted_on, data |-> path],
     event |-> [op |-> "transform", on |-> path]]

\* No projection plot has been made.
NoProj ==
    [call |-> "none", status |-> "none", events |-> <<>>,
     real |-> [basis |-> "none", data |-> "none"], synth |-> <<>>]

\* The loop over synthetic_datas of combined_pca, from estimator est.
PcaLoop(est, synthetic_datas) ==
    [i \in 1..Len(synthetic_datas) |-> transform(est, synthetic_datas[i])]

\* The loop over synthetic_datas of combined_tsne: step i starts from the
\* estimator step i - 1 left.
TsneLoop(est, synthetic_datas) ==
    LET RECURSIVE Go(_)
        Go(i) == IF i = 0 THEN <<>>
                 ELSE LET before == Go(i - 1)
                          e == IF i = 1 THEN est ELSE before[i - 1].est
                      IN Append(before, fit_transform(e, synthetic_datas[i]))
    IN Go(Len(synthetic_datas))

\* The outcome of a plot whose first step was first and whose loop made steps.
Projection(call, first, steps, status) ==
    [call |-> call, status |-> status,
     events |-> <<first.event>> \o [i \in 1..Len(steps) |-> steps[i].event],
     real |-> first.out,
     synth |-> [i \in 1..Len(steps) |-> steps[i].out]]

\* The titles loop: names[i] for each of the six axes.
TitleStatus(n_names) == IF n_names < NAxes THEN "IndexError" ELSE "ok"

\* ComponentPlots.pca_plot(real_data, synthetic_data): synthetic_data is a
\* file or None (the empty sequence here).
pca_plot ==
    \E real_data \in Paths :
    \E synthetic_data \in {<<>>} \cup {<<f>> : f \in Paths} :
        LET pca_orig == fit_transform(Estimator("PCA"), real_data)
        IN /\ proj' = Projection("pca_plot", pca_orig,
                                 PcaLoop(pca_orig.est, synthetic_data), "ok")
           /\ rng' = Seed1234
           /\ UNCHANGED <<train_file, test_file, synth_file, plot>>

\* The lists of at most n files
FileLists(n) == UNION {[1..k -> Paths] : k \in 0..n}

\* ComponentPlots.combined_pca(real_data, synthetic_datas, names)
combined_pca ==
    \E real_data \in Paths :
    \E synthetic_datas \in FileLists(MaxSynthFiles) :
    \E n_names \in {NAxes - 1, NAxes} :
        LET pca_orig == fit_transform(Estimator("PCA"), real_data)
        IN /\ proj' = Projection("combined_pca", pca_orig,
                                 PcaLoop(pca_orig.est, synthetic_datas),
                                 TitleStatus(n_names))
           /\ rng' = Seed1234
           /\ UNCHANGED <<train_file, test_file, synth_file, plot>>

\* ComponentPlots.combined_tsne(real_data, synthetic_datas, names): TSNE
\* draws its initial embedding from np.random at every fit.
combined_tsne ==
    \E real_data \in Paths :
    \E synthetic_datas \in FileLists(MaxSynthFiles) :
    \E n_names \in {NAxes - 1, NAxes} :
        LET tsne_orig == fit_transform(Estimator("TSNE"), real_data)
        IN /\ proj' = Projection("combined_tsne", tsne_orig,
                                 TsneLoop(tsne_orig.est, synthetic_datas),
                                 TitleStatus(n_names))
           /\ rng' = Draw(Seed1234)
           /\ UNCHANGED <<train_file, test_file, synth_file, plot>>

---------------------------------------------------------------------------
(* Specifications *)

TypeFiles(TrainS, TestS, SynthS) ==
    /\ \E tc \in TrainS, ec \in TestS, sc \in SynthS :
          /\ train_file \in Tables(tc, MaxRef)
          /\ test_file \in Tables(ec, MaxRef)
          /\ synth_file \in Tables(sc, MaxSynth)
    /\ Len(train_file.rows) + Len(test_file.rows) <= MaxRef

\* The scorer on files with one common header.  np.random is as the
\* operating system seeded it, or as an earlier projection plot left it.
Init ==
    /\ TypeFiles({<<"a", "b">>}, {<<"a", "b">>}, {<<"a", "b">>})
    /\ rng \in {r \in RngStates : ~r.used}
    /\ plot = NoPlot
    /\ proj = NoProj

Next == AUCPlotInit

Spec == Init /\ [][Next]_vars

\* The scorer on files with any headers of Schemas.
InitSchema ==
    /\ TypeFiles(Schemas, Schemas, Schemas)
    /\ rng = [seed |-> "os", used |-> FALSE]
    /\ plot = NoPlot
    /\ proj = NoProj

SpecSchema == InitSchema /\ [][Next]_vars

\* The whole module on one set of files.
InitPlots ==
    /\ train_file = [cols |-> <<"a", "b">>, rows |-> <<[a |-> 0, b |-> 0]>>]
    /\ test_file = [cols |-> <<"a", "b">>, rows |-> <<[a |-> 2, b |-> 0]>>]
    /\ synth_file = [cols |-> <<"a", "b">>,
                     rows |-> <<[a |-> 1, b |-> 2], [a |-> 2, b |-> 0]>>]
    /\ rng = [seed |-> "os", used |-> FALSE]
    /\ plot = NoPlot
    /\ proj = NoProj

NextPlots ==
    \/ AUCPlotInit
    \/ pca_plot
    \/ combined_pca
    \/ combined_tsne

SpecPlots == InitPlots /\ [][NextPlots]_vars

---------------------------------------------------------------------------
(* Properties *)

NTrain == Len(train_file.rows)

NTest == Len(test_file.rows)

NSynth == Len(synth_file.rows)

\* The reference rows in file order, train first.
RefRows == train_file.rows \o test_file.rows

\* An AUCPlot construction has run (to an object or to an exception).
Built == plot.status # "none"

SameColumns ==
    /\ Range(train_file.cols) = Range(test_file.cols)
    /\ Range(train_file.cols) = Range(synth_file.cols)

\* The inputs score() is specified for.
ValidInputs == NTrain >= 1 /\ NTest >= 1 /\ NSynth >= 1 /\ SameColumns

Identity(n) == [i \in 1..n |-> i]

\* Squared Euclidean distance of two rows over the columns cols.
SqDist(r, q, cols) ==
    SeqSum([j \in 1..Len(cols) |->
              (r[cols[j]] - q[cols[j]]) * (r[cols[j]] - q[cols[j]])])

\* d is the Euclidean distance of r and q in hundredths, rounded down.
IsDistance(d, r, q, cols) ==
    /\ d >= 0
    /\ d * d <= 10000 * SqDist(r, q, cols)
    /\ (d + 1) * (d + 1) > 10000 * SqDist(r, q, cols)

\* r <= s for two rates that are numbers
RateLeq(r, s) == r.num * s.den <= s.num * r.den

IsZero(r) == r.den > 0 /\ r.num = 0

IsOne(r) == r.den > 0 /\ r.num = r.den

\* What a scoring run returns or raises.
Outcome(o) == [status |-> o.status, fpr |-> o.fpr, tpr |-> o.tpr, auc |-> o.auc]

(* ----------------------------------------------------------------- C1 *)

\* The scenario of C1: synthetic is the test table itself and no train row
\* is a test row, so test distances are 0 and train distances positive.
CopyOfTest ==
    /\ plot.status = "ok"
    /\ NTrain >= 1 /\ NTest >= 1
    /\ synth_file = test_file
    /\ \A k \in 1..Len(plot.labels) :
          /\ plot.labels[k] = 1 => plot.syn_dists[k][1] = 0
          /\ plot.labels[k] = -1 => plot.syn_dists[k][1] > 0

\* C1 as stated: when synthetic is a copy of test and every train row is
\* farther from the synthetic set than every test row, the AUC is above 0.9.
Cex_C1 == CopyOfTest => 10 * plot.auc.num > 9 * plot.auc.den

\* C1 amended: in that scenario the AUC is exactly 0 (below 0.1): the sweep
\* ranks the rows by decreasing distance and counts test as the positive
\* class, so every train row is ranked above every test row.
Thm_C1 == CopyOfTest => IsZero(plot.auc)

Wit_C1 ==
    /\ CopyOfTest
    /\ NTrain >= 2
    /\ plot.perm # Identity(NTrain + NTest)

(* ----------------------------------------------------------------- C2 *)

\* C2: after __create_shuffled_data, whatever permutation was drawn, row k
\* of the returned data is the reference row the permutation put there and
\* label k is that row's label, -1 for a train row and +1 for a test row;
\* the number of rows and of each label is unchanged.
Thm_C2 ==
    Built =>
        /\ Len(plot.data.rows) = NTrain + NTest
        /\ Len(plot.labels) = NTrain + NTest
        /\ \A k \in 1..(NTrain + NTest) :
              /\ plot.data.rows[k] = RefRows[plot.perm[k]]
              /\ plot.labels[k] = IF plot.perm[k] <= NTrain THEN -1 ELSE 1
        /\ Cardinality({k \in 1..Len(plot.labels) : plot.labels[k] = -1}) = NTrain
        /\ Cardinality({k \in 1..Len(plot.labels) : plot.labels[k] = 1}) = NTest

Wit_C2 ==
    /\ plot.status = "ok"
    /\ NTrain >= 1 /\ NTest >= 2
    /\ plot.labels[1] = 1 /\ plot.labels[2] = -1
    /\ plot.perm[3] = 1 + NTrain

(* ----------------------------------------------------------------- C3 *)

\* fpr and tpr form a ROC curve: equal length, every value in [0,1], both
\* non-decreasing, from (0,0) to (1,1).
IsRocCurve(fpr, tpr) ==
    /\ Len(fpr) = Len(tpr)
    /\ Len(fpr) >= 2
    /\ \A j \in 1..Len(fpr) :
          /\ fpr[j].den > 0 /\ 0 <= fpr[j].num /\ fpr[j].num <= fpr[j].den
          /\ tpr[j].den > 0 /\ 0 <= tpr[j].num /\ tpr[j].num <= tpr[j].den
    /\ \A j \in 1..(Len(fpr) - 1) :
          RateLeq(fpr[j], fpr[j + 1]) /\ RateLeq(tpr[j], tpr[j + 1])
    /\ IsZero(fpr[1]) /\ IsZero(tpr[1])
    /\ IsOne(fpr[Len(fpr)]) /\ IsOne(tpr[Len(tpr)])

\* C3: for valid inputs the run succeeds and fpr, tpr have equal length, are
\* non-decreasing with values in [0,1], start at (0,0) and end at (1,1).
Thm_C3 ==
    (Built /\ ValidInputs) => (plot.status = "ok" /\ IsRocCurve(plot.fpr, plot.tpr))

Wit_C3 ==
    /\ plot.status = "ok"
    /\ ValidInputs
    /\ Len(plot.fpr) = 4
    /\ plot.fpr[2] # plot.fpr[1]

(* ----------------------------------------------------------------- C4 *)

\* C4: a run whose three tables do not have the same column set fails, with
\* no distance computed and nothing stored on the object.  (Stated for any
\* exception, so that the exception's name is not what decides it, and for
\* tables that all have rows, so that an empty table is not either.)
Cex_C4 ==
    (Built /\ ~SameColumns /\ NTrain >= 1 /\ NTest >= 1 /\ NSynth >= 1) =>
        /\ plot.status # "ok"
        /\ plot.syn_dists = <<>>
        /\ plot.fpr = <<>> /\ plot.tpr = <<>>

(* ----------------------------------------------------------------- C5 *)

\* C5: a run in which train, test or synthetic has no rows fails, and yields
\* no fpr, tpr or auc.  (Stated for any exception, as C4.)
Cex_C5 ==
    (Built /\ (NTrain = 0 \/ NTest = 0 \/ NSynth = 0)) =>
        /\ plot.status # "ok"
        /\ plot.fpr = <<>> /\ plot.tpr = <<>>

(* ----------------------------------------------------------------- C6 *)

\* C6: in every projection plot the projection is fitted once, on the real
\* data, and every synthetic data set is shown on that basis.
Cex_C6 ==
    proj.call # "none" =>
        /\ proj.events[1] = [op |-> "fit_transform", on |-> proj.real.data]
        /\ \A i \in 2..Len(proj.events) : proj.events[i].op # "fit_transform"
        /\ \A i \in 1..Len(proj.synth) : proj.synth[i].basis = proj.real.data

(* ----------------------------------------------------------------- C7 *)

\* The permutation that, with train and test exchanged, puts the same
\* reference rows in the same places as p does.
SwapPerm(p) ==
    [k \in 1..Len(p) |-> IF p[k] <= NTrain THEN NTest + p[k] ELSE p[k] - NTrain]

\* The run on the same files with train and test exchanged.
Swapped == AUCPlot(test_file, train_file, synth_file, "auc", SwapPerm(plot.perm))

\* 1 - r; NaN stays NaN.
OneMinus(r) == [num |-> r.den - r.num, den |-> r.den]

\* C7: exchanging train and test inverts the label of every reference row
\* and keeps its distance; fpr and tpr are exchanged and the AUC becomes
\* 1 - AUC.
Thm_C7 ==
    Built =>
        LET sw == Swapped
        IN /\ sw.status = plot.status
           /\ sw.data = plot.data
           /\ sw.labels = [k \in 1..Len(plot.labels) |-> -plot.labels[k]]
           /\ sw.syn_dists = plot.syn_dists
           /\ sw.fpr = plot.tpr
           /\ sw.tpr = plot.fpr
           /\ sw.auc = OneMinus(plot.auc)

Wit_C7 ==
    /\ plot.status = "ok"
    /\ NTrain >= 1 /\ NTest >= 1
    /\ plot.fpr # plot.tpr
    /\ ~IsNaN(plot.auc) /\ ~IsZero(plot.auc) /\ ~IsOne(plot.auc)
    /\ 2 * plot.auc.num # plot.auc.den

(* ----------------------------------------------------------------- C8 *)

\* C8: what a run returns or raises depends on the three tables alone: it
\* is the same for every permutation the shuffle draws and every state
\* np.random was left in.
Thm_C8 ==
    Built =>
        Outcome(plot) =
            Outcome(AUCPlot(train_file, test_file, synth_file, "auc",
                            Identity(NTrain + NTest)))

Wit_C8 ==
    /\ plot.status = "ok"
    /\ rng.seed = "1234"
    /\ plot.perm # Identity(NTrain + NTest)
    /\ plot.labels # [k \in 1..(NTrain + NTest) |-> IF k <= NTrain THEN -1 ELSE 1]
    /\ Len(plot.fpr) >= 3
    /\ \E j, k \in 1..Len(plot.syn_dists) :
          j # k /\ plot.syn_dists[j] = plot.syn_dists[k] /\ plot.labels[j] # plot.labels[k]

(* ----------------------------------------------------------------- C9 *)

\* C9: __nearest_neighbors returns one distance per row of t, in t's
\* (shuffled) order, and the value for row k is the least Euclidean
\* distance from row k to a row of s, also when s has one row.
Thm_C9 ==
    plot.status = "ok" =>
        /\ Len(plot.syn_dists) = Len(plot.data.rows)
        /\ \A k \in 1..Len(plot.syn_dists) :
              /\ Len(plot.syn_dists[k]) = 1
              /\ \E i \in 1..NSynth :
                    IsDistance(plot.syn_dists[k][1], plot.data.rows[k],
                               synth_file.rows[i], synth_file.cols)
              /\ \A i \in 1..NSynth :
                    plot.syn_dists[k][1] * plot.syn_dists[k][1]
                        <= 10000 * SqDist(plot.data.rows[k], synth_file.rows[i],
                                          synth_file.cols)

Wit_C9 ==
    /\ plot.status = "ok"
    /\ NSynth = 2
    /\ Len(plot.syn_dists) = 3
    /\ plot.syn_dists[1][1] # plot.syn_dists[2][1]
    /\ plot.syn_dists[2][1] > 0
    /\ IsDistance(plot.syn_dists[2][1], plot.data.rows[2],
                  synth_file.rows[2], synth_file.cols)
    /\ ~IsDistance(plot.syn_dists[2][1], plot.data.rows[2],
                   synth_file.rows[1], synth_file.cols)

(* ---------------------------------------------------------------- C10 *)

\* The least squared distance from row r to the synthetic rows.
NearestSq(r) ==
    SetMin({SqDist(r, synth_file.rows[i], synth_file.cols) : i \in 1..NSynth})

Equidistant ==
    \A j, k \in 1..(NTrain + NTest) : NearestSq(RefRows[j]) = NearestSq(RefRows[k])

\* C10: if every reference row has the same nearest-neighbour distance, the
\* run succeeds, the curve is the diagonal from (0,0) to (1,1) and the AUC
\* is 0.5.
Thm_C10 ==
    (Built /\ ValidInputs /\ Equidistant) =>
        /\ plot.status = "ok"
        /\ Len(plot.fpr) = 2 /\ Len(plot.tpr) = 2
        /\ IsZero(plot.fpr[1]) /\ IsZero(plot.tpr[1])
        /\ IsOne(plot.fpr[2]) /\ IsOne(plot.tpr[2])
        /\ plot.auc.den > 0 /\ 2 * plot.auc.num = plot.auc.den

Wit_C10 ==
    /\ plot.status = "ok"
    /\ ValidInputs /\ Equidistant
    /\ NTrain + NTest = 3
    /\ plot.syn_dists[1][1] > 0

===========================================================================
